---------------------------- MODULE Spec2Model ----------------------------
(***************************************************************************)
(* A model of proximity-lock: the lock decision loop (run_service), the    *)
(* retry orchestrator (scan_proximity_with_retry / scan_proximity), the    *)
(* monitor (BluetoothMonitor.monitor_once), the discovery engine           *)
(* (BluetoothDetector.scan_ble_devices and its detection_callback) and     *)
(* the proximity estimator (estimate_distance / classify_proximity).       *)
(*                                                                         *)
(* Conventions.                                                            *)
(*   - A Python str is a sequence of one-character strings.                *)
(*   - An Optional[int] / Optional[float] is a set: {} is None, {v} is v.  *)
(*   - A distance is kept in hundredths of a metre (round(d, 2) * 100).    *)
(*   - An Optional[str] proximity is a string, None being the string       *)
(*     "None".                                                             *)
(***************************************************************************)
EXTENDS Integers, Sequences, FiniteSets, TLC

(***************************************************************************)
(* Bounds of the model.                                                    *)
(***************************************************************************)
\* the number of advertisement callbacks the radio delivers during one scan
MaxObs == 2

(***************************************************************************)
(* Program constants.                                                      *)
(***************************************************************************)
RETRY_COUNT == 3
DEFAULT_TX_POWER == -59
DEFAULT_INTERVAL == 30
\* the thresholds of classify_proximity, in hundredths of a metre
IMMEDIATE_LIMIT == 50
NEAR_LIMIT == 200
FAR_LIMIT == 1000

FAR_PROXIMITIES == {"Far", "Very Far"}

None == "None"
Absent == {}
Some(v) == {v}
ValueOf(o) == CHOOSE v \in o : TRUE

(***************************************************************************)
(* Strings: str.upper(), str.lower(), the `in` operator, str.strip().      *)
(***************************************************************************)
LOWER == <<"a","b","c","d","e","f","g","h","i","j","k","l","m",
           "n","o","p","q","r","s","t","u","v","w","x","y","z">>
UPPER == <<"A","B","C","D","E","F","G","H","I","J","K","L","M",
           "N","O","P","Q","R","S","T","U","V","W","X","Y","Z">>

UpperChar(c) ==
    IF \E i \in 1..Len(LOWER) : LOWER[i] = c
    THEN UPPER[CHOOSE i \in 1..Len(LOWER) : LOWER[i] = c]
    ELSE c

LowerChar(c) ==
    IF \E i \in 1..Len(UPPER) : UPPER[i] = c
    THEN LOWER[CHOOSE i \in 1..Len(UPPER) : UPPER[i] = c]
    ELSE c

str_upper(s) == [i \in 1..Len(s) |-> UpperChar(s[i])]
str_lower(s) == [i \in 1..Len(s) |-> LowerChar(s[i])]

\* Python's `sub in s`
str_in(sub, s) ==
    \E i \in 0..(Len(s) - Len(sub)) : SubSeq(s, i + 1, i + Len(sub)) = sub

WHITESPACE == {" ", "\n", "\t"}

RECURSIVE lstrip(_)
lstrip(s) == IF s # <<>> /\ Head(s) \in WHITESPACE THEN lstrip(Tail(s)) ELSE s

RECURSIVE rstrip(_)
rstrip(s) ==
    IF s # <<>> /\ s[Len(s)] \in WHITESPACE
    THEN rstrip(SubSeq(s, 1, Len(s) - 1))
    ELSE s

str_strip(s) == rstrip(lstrip(s))

(***************************************************************************)
(* BluetoothDetector.__init__ and is_target_device.                        *)
(***************************************************************************)
\* self.target_devices = [td.upper() for td in target_devices] if target_devices else []
DetectorTargets(targets) == [i \in 1..Len(targets) |-> str_upper(targets[i])]

TargetMatches(target, mac_address, name) ==
    \/ str_in(target, str_upper(mac_address))
    \/ str_in(str_lower(target), str_lower(name))

is_target_device(target_devices, mac_address, name) ==
    \E i \in 1..Len(target_devices) :
        TargetMatches(target_devices[i], mac_address, name)

(***************************************************************************)
(* The proximity estimator.                                                *)
(***************************************************************************)
RECURSIVE Pow10Int(_)
Pow10Int(k) == IF k = 0 THEN 1 ELSE 10 * Pow10Int(k - 1)

\* 10^(r/20) for r = 0..19, to six decimals, as an integer (value * 10^6)
Pow10Twentieths ==
    <<1000000, 1122018, 1258925, 1412538, 1584893, 1778279, 1995262,
      2238721, 2511886, 2818383, 3162278, 3548134, 3981072, 4466836,
      5011872, 5623413, 6309573, 7079458, 7943282, 8912509>>

\* an estimator that cuts the third decimal off instead of rounding
DistanceHundredths_Truncated(diff) ==
    LET e == diff + 40
        q == e \div 20
        r == e % 20
    IN  IF q < -1 THEN 0 ELSE Pow10Twentieths[r + 1] \div Pow10Int(6 - q)

\* round(pow(10, diff / 20), 2), in hundredths, for diff in -120..99
DistanceHundredths(diff) ==
    LET e == diff + 40
        q == e \div 20
        r == e % 20
    IN  IF q < -1 THEN 0
        ELSE LET d == Pow10Int(6 - q)
             IN  (Pow10Twentieths[r + 1] + (d \div 2)) \div d

\* an estimator that takes rssi 0 for a measurement
estimate_distance_ZeroValid(rssi, tx_power) ==
    IF rssi = Absent
    THEN Absent
    ELSE LET tx == IF tx_power = Absent \/ tx_power = Some(0)
                   THEN DEFAULT_TX_POWER
                   ELSE ValueOf(tx_power)
         IN  Some(DistanceHundredths(tx - ValueOf(rssi)))

\* an estimator with the operands of the subtraction exchanged
estimate_distance_Swapped(rssi, tx_power) ==
    IF rssi = Absent \/ rssi = Some(0)
    THEN Absent
    ELSE LET tx == IF tx_power = Absent \/ tx_power = Some(0)
                   THEN DEFAULT_TX_POWER
                   ELSE ValueOf(tx_power)
         IN  Some(DistanceHundredths(ValueOf(rssi) - tx))

estimate_distance(rssi, tx_power) ==
    IF rssi = Absent \/ rssi = Some(0)
    THEN Absent
    ELSE LET tx == IF tx_power = Absent \/ tx_power = Some(0)
                   THEN DEFAULT_TX_POWER
                   ELSE ValueOf(tx_power)
         IN  Some(DistanceHundredths(tx - ValueOf(rssi)))

\* a classifier whose upper bounds are inclusive
classify_proximity_Inclusive(distance) ==
    IF distance = Absent THEN "Unknown"
    ELSE IF ValueOf(distance) <= IMMEDIATE_LIMIT THEN "Immediate"
    ELSE IF ValueOf(distance) <= NEAR_LIMIT THEN "Near"
    ELSE IF ValueOf(distance) <= FAR_LIMIT THEN "Far"
    ELSE "Very Far"

classify_proximity(distance) ==
    IF distance = Absent THEN "Unknown"
    ELSE IF ValueOf(distance) < IMMEDIATE_LIMIT THEN "Immediate"
    ELSE IF ValueOf(distance) < NEAR_LIMIT THEN "Near"
    ELSE IF ValueOf(distance) < FAR_LIMIT THEN "Far"
    ELSE "Very Far"


(***************************************************************************)
(* The radio environment of the model: the advertisements the radio        *)
(* collaborator may deliver, and the contents the configuration file may   *)
(* have.                                                                   *)
(***************************************************************************)
PHONE_ADDRESS == <<"A", "1">>
PHONE_NAME == <<"P", "h">>
OTHER_ADDRESS == <<"B", "2">>
SECOND_PHONE_ADDRESS == <<"A", "2">>

Advertisement(address, name, rssi) ==
    [address |-> address, name |-> name, local_name |-> <<>>,
     rssi |-> rssi, tx_power |-> Absent]

Advertisements ==
    { Advertisement(PHONE_ADDRESS, PHONE_NAME, Some(r)) : r \in {-50, -60, -70, -90, 0} }
    \cup { Advertisement(PHONE_ADDRESS, PHONE_NAME, Absent),
           Advertisement(OTHER_ADDRESS, <<>>, Some(-50)),
           Advertisement(SECOND_PHONE_ADDRESS, PHONE_NAME, Some(-50)) }

\* the file ~/.bluetooth_proximity_config: missing, or its text
ConfigFiles ==
    { Absent,
      Some(<<"A", "1", "\n">>),     \* the address as the radio reports it
      Some(<<"a", "1">>),           \* the address in lower case
      Some(<<"p", "h">>),           \* a part of the display name
      Some(<<"\n">>) }              \* an empty line

(***************************************************************************)
(* detection_callback and the final filtering of scan_ble_devices.         *)
(***************************************************************************)
UNKNOWN_NAME == <<"U", "n", "k", "n", "o", "w", "n">>

\* name = device.name or advertisement_data.local_name or "Unknown"
NameOf(adv) ==
    IF adv.name # <<>> THEN adv.name
    ELSE IF adv.local_name # <<>> THEN adv.local_name
    ELSE UNKNOWN_NAME

\* the tuple (mac, name, rssi, ad_data) appended to devices_found
DeviceTuple(adv) ==
    [mac |-> adv.address, name |-> NameOf(adv),
     rssi |-> adv.rssi, tx_power |-> adv.tx_power]

\* a callback that counts every device it sees, matching or not
CallbackFound_AnyDevice(target_only, targets, found, d) ==
    IF target_only /\ targets # <<>> THEN found \cup {d.mac} ELSE found

\* found_target_macs after the callback for device tuple d
CallbackFound(target_only, targets, found, d) ==
    IF target_only /\ targets # <<>> /\ is_target_device(targets, d.mac, d.name)
    THEN found \cup {d.mac}
    ELSE found

\* a callback that sets stop_scan_event on the first device it sees
CallbackStops_AnyDevice(target_only, targets, found, d) == target_only

\* whether the callback for device tuple d sets stop_scan_event
CallbackStops(target_only, targets, found, d) ==
    IF target_only /\ targets # <<>>
    THEN /\ is_target_device(targets, d.mac, d.name)
         /\ \/ Cardinality(CallbackFound(target_only, targets, found, d)) = Len(targets)
            \/ targets = <<>>
    ELSE target_only /\ targets = <<>>

\* a scan that returns devices_found as it is, whatever its targets
FilterDevices_Unfiltered(target_only, targets, found_list) == found_list

\* the list scan_ble_devices returns after a scan without error
FilterDevices(target_only, targets, found_list) ==
    IF target_only /\ targets # <<>>
    THEN SelectSeq(found_list, LAMBDA d : is_target_device(targets, d.mac, d.name))
    ELSE found_list

(***************************************************************************)
(* BluetoothMonitor.monitor_once, after the scan returned `devices`.       *)
(***************************************************************************)
MonitorEntry(d) ==
    LET distance == estimate_distance(d.rssi, d.tx_power)
    IN  [name |-> d.name, mac |-> d.mac, rssi |-> d.rssi, tx_power |-> d.tx_power,
         distance |-> distance, proximity |-> classify_proximity(distance)]

\* f"{distance:.2f}" of the debug message raises TypeError when distance is None
FormatRaises(distance) == distance = Absent

MonitorRaises(devices) ==
    \E i \in 1..Len(devices) :
        FormatRaises(estimate_distance(devices[i].rssi, devices[i].tx_power))

monitor_once(devices) ==
    IF MonitorRaises(devices)
    THEN [raised |-> "TypeError", results |-> <<>>]
    ELSE [raised |-> None,
          results |-> [i \in 1..Len(devices) |-> MonitorEntry(devices[i])]]

(***************************************************************************)
(* proximity_lock_service: scan_proximity and the decisions of             *)
(* scan_proximity_with_retry and run_service.                              *)
(***************************************************************************)
\* device.get("mac") == target_mac
SameMac(mac, target) == mac = target

scan_proximity(results, target) ==
    IF \E i \in 1..Len(results) : SameMac(results[i].mac, target)
    THEN LET first == CHOOSE i \in 1..Len(results) :
                          /\ SameMac(results[i].mac, target)
                          /\ \A j \in 1..(i - 1) : ~SameMac(results[j].mac, target)
         IN  results[first].proximity
    ELSE None

\* variants of CloseEnough: without the test for None; accepting Immediate only
CloseEnough_NoneAccepted(p) == p \notin FAR_PROXIMITIES
CloseEnough_ImmediateOnly(p) == p = "Immediate"

\* if proximity is not None and proximity not in FAR_PROXIMITIES: return proximity
CloseEnough(p) == p # None /\ p \notin FAR_PROXIMITIES

\* a variant of AttemptsRemain: sleeping after the last attempt too
AttemptsRemain_AfterLast(a) == a < RETRY_COUNT

\* if attempt < RETRY_COUNT - 1: ... await asyncio.sleep(RETRY_DELAY)
AttemptsRemain(a) == a < RETRY_COUNT - 1

\* for attempt in range(RETRY_COUNT)
InRange(a) == a < RETRY_COUNT

\* a variant of ShouldLock: locking on "Far" only
ShouldLock_FarOnly(p) == p = "Far"

\* a variant of ShouldLock: locking on every verdict but "Immediate"
ShouldLock_UnlessImmediate(p) == p # "Immediate"

\* if proximity in FAR_PROXIMITIES: locker.lock()
ShouldLock(p) == p \in FAR_PROXIMITIES

\* a variant of ShouldScan: the test inverted
ShouldScan_Inverted(status) == status = "locked"

\* if not locker.is_locked(): ...
ShouldScan(status) == status = "unlocked"

(***************************************************************************)
(* UbuntuScreenLock.is_locked and lock, over the outcomes of the commands  *)
(* they run.                                                               *)
(***************************************************************************)
SessionChecks == {"active", "none", "error"}
StatusOutcomes == {"locked", "unlocked", "failed"}

\* a session check that takes its own failure for the absence of a session
has_active_graphical_session_ErrorIsNone(session) == session = "active"

\* _has_active_graphical_session: an error of the check assumes a session
has_active_graphical_session(session) == session # "none"

\* a status check that asks D-Bus before loginctl
is_locked_DbusFirst(session, loginctl, dbus) ==
    IF ~has_active_graphical_session(session) THEN "locked"
    ELSE IF dbus # "failed" THEN dbus
    ELSE IF loginctl # "failed" THEN loginctl
    ELSE "StatusCheckError"

is_locked(session, loginctl, dbus) ==
    IF ~has_active_graphical_session(session) THEN "locked"
    ELSE IF loginctl # "failed" THEN loginctl
    ELSE IF dbus # "failed" THEN dbus
    ELSE "StatusCheckError"

\* the status methods is_locked calls, in order
status_methods_called(session, loginctl, dbus) ==
    IF ~has_active_graphical_session(session) THEN <<>>
    ELSE IF loginctl # "failed" THEN <<"loginctl">>
    ELSE <<"loginctl", "dbus">>

\* what the commands of _check_via_loginctl may give
LoginctlRuns ==
    {"no sessions", "no session id", "LockedHint=yes", "LockedHint=no",
     "CalledProcessError", "FileNotFoundError"}

\* what the command of _check_via_dbus may give
DbusRuns == {"boolean true", "boolean false", "CalledProcessError", "FileNotFoundError"}

\* the errors is_locked and lock take as the failure of a method
MethodFailures == {"CalledProcessError", "FileNotFoundError"}

check_via_loginctl(run) ==
    IF run \in MethodFailures THEN "failed"
    ELSE IF run = "LockedHint=yes" THEN "locked"
    ELSE "unlocked"

check_via_dbus(run) ==
    IF run \in MethodFailures THEN "failed"
    ELSE IF run = "boolean true" THEN "locked"
    ELSE "unlocked"

\* a lock() that has no second method
lock_DbusOnly(dbus_ok, session_id_found, loginctl_ok) ==
    IF dbus_ok THEN "ok" ELSE "LockFailedError"

lock(dbus_ok, session_id_found, loginctl_ok) ==
    IF dbus_ok THEN "ok"
    ELSE IF session_id_found /\ loginctl_ok THEN "ok"
    ELSE "LockFailedError"

\* the commands lock() runs, in order
lock_methods_tried(dbus_ok, session_id_found, loginctl_ok) ==
    IF dbus_ok THEN <<"dbus-send">>
    ELSE IF session_id_found THEN <<"dbus-send", "loginctl">>
    ELSE <<"dbus-send">>

\* what a command of lock() may give
LockRuns == {"ok", "CalledProcessError", "FileNotFoundError"}


\* except (StatusCheckError, LockFailedError, FileNotFoundError) as e
LoopCatches(e) == e \in {"StatusCheckError", "LockFailedError", "FileNotFoundError"}

(***************************************************************************)
(* The state of the service.                                               *)
(***************************************************************************)
VARIABLES
    config,             \* the configuration file: Absent, or Some(text)
    BLEAK_AVAILABLE,    \* whether the import of bleak succeeded
    pc,                 \* where the control flow of run_service is
    exc,                \* the exception raised into run_service in this cycle
    target_mac,         \* run_service: target_mac
    locked,             \* run_service: what is_locked() gave in this cycle
    attempt,            \* scan_proximity_with_retry: attempt
    proximity,          \* scan_proximity_with_retry: proximity
    verdict,            \* run_service: proximity, once the retry call returned
    report,             \* what scan_proximity_with_retry printed on exhaustion
    target_only,        \* scan_ble_devices: the argument target_only
    target_devices,     \* BluetoothDetector.target_devices
    devices_found,      \* scan_ble_devices: devices_found
    found_target_macs,  \* scan_ble_devices: found_target_macs
    stop_scan_event,    \* scan_ble_devices: stop_scan_event, set or not
    scanner,            \* the BleakScanner: "none", "created", "running", "stopped"
    stop_requests,      \* the calls of scanner.stop() made by this scan
    wait_result,        \* how the wait of this scan ended: "event", "timeout", "slept"
    found_at_wait_end,  \* len(devices_found) when the wait of this scan ended
    returned,           \* what scan_ble_devices returned to monitor_once
    monitor_result,     \* what monitor_once did with it
    history,            \* the attempts of this cycle that ended, in order
    trace,              \* the calls of this cycle, in order
    estimate_call,      \* the last call of the distance estimator on its own
    screenlock_call,    \* the last is_locked() and lock() of a locker on its own
    monitor_loop        \* a BluetoothMonitor.monitor_loop generator on its own

scan_vars ==
    <<target_only, target_devices, devices_found, found_target_macs, stop_scan_event,
      scanner, stop_requests, wait_result, found_at_wait_end, returned, monitor_result>>

retry_vars == <<attempt, proximity, verdict, report, history>>

call_vars == <<estimate_call, screenlock_call, monitor_loop>>

vars ==
    <<config, BLEAK_AVAILABLE, pc, exc, target_mac, locked, trace,
      retry_vars, scan_vars, call_vars>>

NoMonitorResult == [raised |-> None, results |-> <<>>]

NoScreenLockCall ==
    [status |-> [session |-> None, loginctl |-> None, dbus |-> None,
                 called |-> <<>>, result |-> None],
     lock |-> [dbus |-> None, session_id_found |-> FALSE, loginctl |-> None,
               tried |-> <<>>, result |-> None]]

NoEstimate ==
    [op |-> None, rssi |-> Absent, tx_power |-> Absent, distance |-> Absent,
     proximity |-> None]

\* a monitor_loop generator that has not been entered
NoMonitorLoop ==
    [at |-> "created", requested |-> Absent, interval_seconds |-> Absent,
     log |-> <<>>, raised |-> None, yielded |-> <<>>, slept |-> Absent]

Init ==
    /\ config \in ConfigFiles
    /\ BLEAK_AVAILABLE \in BOOLEAN
    /\ pc = "load"
    /\ exc = None
    /\ target_mac = <<>>
    /\ locked = None
    /\ attempt = 0
    /\ proximity = None
    /\ verdict = None
    /\ report = None
    /\ target_only = TRUE
    /\ target_devices = <<>>
    /\ devices_found = <<>>
    /\ found_target_macs = {}
    /\ stop_scan_event = FALSE
    /\ scanner = "none"
    /\ stop_requests = 0
    /\ wait_result = None
    /\ found_at_wait_end = 0
    /\ returned = <<>>
    /\ monitor_result = NoMonitorResult
    /\ history = <<>>
    /\ trace = <<>>
    /\ estimate_call = NoEstimate
    /\ screenlock_call = NoScreenLockCall
    /\ monitor_loop = NoMonitorLoop

\* an exception e reaches the try statement of run_service's loop
RaisedInLoop(e) ==
    /\ exc' = e
    /\ pc' = IF LoopCatches(e) THEN "poll_sleep" ELSE "crashed"

(***************************************************************************)
(* run_service, before the loop: load_target_mac.                          *)
(***************************************************************************)
LoadTarget ==
    /\ pc = "load"
    /\ IF config = Absent
       THEN /\ exc' = "FileNotFoundError"
            /\ pc' = "fatal"
            /\ UNCHANGED target_mac
       ELSE /\ target_mac' = str_strip(ValueOf(config))
            /\ pc' = "cycle"
            /\ UNCHANGED exc
    /\ UNCHANGED <<call_vars, config, BLEAK_AVAILABLE, locked, trace, retry_vars,
                   scan_vars>>

(***************************************************************************)
(* run_service, the head of a cycle: locker.is_locked().                   *)
(***************************************************************************)
CheckLocked ==
    /\ pc = "cycle"
    /\ \E session \in SessionChecks, loginctl \in StatusOutcomes, dbus \in StatusOutcomes :
        LET status == is_locked(session, loginctl, dbus)
        IN  /\ trace' = <<"is_locked">>
            /\ IF status = "StatusCheckError"
               THEN /\ locked' = None
                    /\ RaisedInLoop(status)
               ELSE /\ locked' = status
                    /\ exc' = None
                    /\ pc' = IF ShouldScan(status) THEN "retry" ELSE "poll_sleep"
    /\ attempt' = 0
    /\ proximity' = None
    /\ verdict' = None
    /\ report' = None
    /\ history' = <<>>
    /\ UNCHANGED <<call_vars, config, BLEAK_AVAILABLE, target_mac, scan_vars>>

(***************************************************************************)
(* One attempt: scan_proximity builds a BluetoothMonitor for the target    *)
(* and monitor_once enters scan_ble_devices(target_only=True).             *)
(***************************************************************************)
StartAttempt ==
    /\ pc = "retry"
    /\ trace' = Append(trace, "scan")
    /\ target_only' = TRUE
    /\ target_devices' = DetectorTargets(<<target_mac>>)
    /\ devices_found' = <<>>
    /\ found_target_macs' = {}
    /\ stop_scan_event' = FALSE
    /\ stop_requests' = 0
    /\ wait_result' = None
    /\ found_at_wait_end' = 0
    /\ returned' = <<>>
    /\ monitor_result' = NoMonitorResult
    /\ IF BLEAK_AVAILABLE
       THEN /\ scanner' = "created"
            /\ pc' = "scan_start"
            /\ UNCHANGED exc
       ELSE /\ scanner' = "none"
            /\ RaisedInLoop("NotImplementedError")
    /\ UNCHANGED <<call_vars, config, BLEAK_AVAILABLE, target_mac, locked,
                   retry_vars>>

\* await scanner.start()
ScannerStart ==
    /\ pc = "scan_start"
    /\ \/ /\ scanner' = "running"
          /\ pc' = "scan_wait"
       \/ /\ pc' = "scan_error"
          /\ UNCHANGED scanner
    /\ UNCHANGED <<call_vars, config, BLEAK_AVAILABLE, exc, target_mac, locked,
                   trace, retry_vars, target_only, target_devices, devices_found,
                   found_target_macs, stop_scan_event, stop_requests, wait_result,
                   found_at_wait_end, returned, monitor_result>>

\* the radio delivers an advertisement to detection_callback
DetectionCallback ==
    /\ scanner = "running"
    /\ pc \in {"scan_wait", "scan_stop", "scan_error"}
    /\ Len(devices_found) < MaxObs
    /\ \E adv \in Advertisements :
        LET d == DeviceTuple(adv)
        IN  /\ devices_found' = Append(devices_found, d)
            /\ found_target_macs' =
                   CallbackFound(target_only, target_devices, found_target_macs, d)
            /\ stop_scan_event' =
                   \/ stop_scan_event
                   \/ CallbackStops(target_only, target_devices, found_target_macs, d)
    /\ UNCHANGED <<call_vars, config, BLEAK_AVAILABLE, pc, exc, target_mac, locked,
                   trace, retry_vars, target_only, target_devices, scanner,
                   stop_requests, wait_result, found_at_wait_end, returned,
                   monitor_result>>

\* a wait without timeout: await stop_scan_event.wait()
WaitEnds_NoTimeout ==
    /\ pc = "scan_wait"
    /\ target_only
    /\ stop_scan_event
    /\ wait_result' = "event"
    /\ found_at_wait_end' = Len(devices_found)
    /\ pc' = "scan_stop"
    /\ UNCHANGED <<call_vars, config, BLEAK_AVAILABLE, exc, target_mac, locked,
                   trace, retry_vars, target_only, target_devices, devices_found,
                   found_target_macs, stop_scan_event, scanner, stop_requests,
                   returned, monitor_result>>

\* await asyncio.wait_for(stop_scan_event.wait(), timeout=self.scan_duration)
WaitEnds ==
    /\ pc = "scan_wait"
    /\ target_only
    /\ \/ /\ stop_scan_event
          /\ wait_result' = "event"
       \/ wait_result' = "timeout"
    /\ found_at_wait_end' = Len(devices_found)
    /\ pc' = "scan_stop"
    /\ UNCHANGED <<call_vars, config, BLEAK_AVAILABLE, exc, target_mac, locked,
                   trace, retry_vars, target_only, target_devices, devices_found,
                   found_target_macs, stop_scan_event, scanner, stop_requests,
                   returned, monitor_result>>

\* else: await asyncio.sleep(self.scan_duration)
ScanSleepEnds ==
    /\ pc = "scan_wait"
    /\ ~target_only
    /\ wait_result' = "slept"
    /\ found_at_wait_end' = Len(devices_found)
    /\ pc' = "scan_stop"
    /\ UNCHANGED <<call_vars, config, BLEAK_AVAILABLE, exc, target_mac, locked,
                   trace, retry_vars, target_only, target_devices, devices_found,
                   found_target_macs, stop_scan_event, scanner, stop_requests,
                   returned, monitor_result>>

\* await scanner.stop(), after the wait; then the filtered list is returned
ScannerStop ==
    /\ pc = "scan_stop"
    /\ stop_requests' = stop_requests + 1
    /\ \/ /\ scanner' = "stopped"
          /\ returned' = FilterDevices(target_only, target_devices, devices_found)
          /\ pc' = "scan_returned"
       \/ /\ pc' = "scan_error"
          /\ UNCHANGED <<scanner, returned>>
    /\ UNCHANGED <<call_vars, config, BLEAK_AVAILABLE, exc, target_mac, locked,
                   trace, retry_vars, target_only, target_devices, devices_found,
                   found_target_macs, stop_scan_event, wait_result, found_at_wait_end,
                   monitor_result>>

\* a variant of ErrorStop: the empty list is returned and the scanner is left
\* as it is
ErrorStop_NoStop ==
    /\ pc = "scan_error"
    /\ returned' = <<>>
    /\ pc' = "scan_returned"
    /\ UNCHANGED <<call_vars, config, BLEAK_AVAILABLE, exc, target_mac, locked, trace,
                   retry_vars, target_only, target_devices, devices_found,
                   found_target_macs, stop_scan_event, scanner, stop_requests,
                   wait_result, found_at_wait_end, monitor_result>>

\* except Exception: await scanner.stop(); return []
ErrorStop ==
    /\ pc = "scan_error"
    /\ stop_requests' = stop_requests + 1
    /\ \/ /\ scanner' = "stopped"
          /\ returned' = <<>>
          /\ pc' = "scan_returned"
          /\ UNCHANGED exc
       \/ /\ RaisedInLoop("BleakError")
          /\ UNCHANGED <<scanner, returned>>
    /\ UNCHANGED <<call_vars, config, BLEAK_AVAILABLE, target_mac, locked, trace,
                   retry_vars, target_only, target_devices, devices_found,
                   found_target_macs, stop_scan_event, wait_result, found_at_wait_end,
                   monitor_result>>

HistoryEntry(result, devices) ==
    [result |-> result,
     matched |-> devices # <<>>,
     close |-> \E i \in 1..Len(devices) :
                   MonitorEntry(devices[i]).proximity \in {"Immediate", "Near"}]

\* monitor_once and scan_proximity run on the list scan_ble_devices returned
MonitorOnce ==
    /\ pc = "scan_returned"
    /\ LET m == monitor_once(returned)
       IN  /\ monitor_result' = m
           /\ IF m.raised # None
              THEN /\ RaisedInLoop(m.raised)
                   /\ history' = Append(history, HistoryEntry(m.raised, returned))
                   /\ UNCHANGED proximity
              ELSE /\ proximity' = scan_proximity(m.results, target_mac)
                   /\ history' = Append(history, HistoryEntry(proximity', returned))
                   /\ pc' = "after_scan"
                   /\ UNCHANGED exc
    /\ UNCHANGED <<call_vars, config, BLEAK_AVAILABLE, target_mac, locked, trace,
                   attempt, verdict, report, target_only, target_devices,
                   devices_found, found_target_macs, stop_scan_event, scanner,
                   stop_requests, wait_result, found_at_wait_end, returned>>

(***************************************************************************)
(* scan_proximity_with_retry, after an attempt.                            *)
(***************************************************************************)
ScanLocalsDropped ==
    /\ devices_found' = <<>>
    /\ found_target_macs' = {}
    /\ stop_scan_event' = FALSE
    /\ scanner' = "none"
    /\ stop_requests' = 0
    /\ wait_result' = None
    /\ found_at_wait_end' = 0
    /\ returned' = <<>>
    /\ monitor_result' = NoMonitorResult
    /\ UNCHANGED <<target_only, target_devices>>

FastAccept ==
    /\ pc = "after_scan"
    /\ CloseEnough(proximity)
    /\ verdict' = proximity
    /\ pc' = "decide"
    /\ ScanLocalsDropped
    /\ UNCHANGED <<call_vars, config, BLEAK_AVAILABLE, exc, target_mac, locked,
                   trace, attempt, proximity, report, history>>

\* await asyncio.sleep(RETRY_DELAY) begins
RetrySleep ==
    /\ pc = "after_scan"
    /\ ~CloseEnough(proximity)
    /\ AttemptsRemain(attempt)
    /\ trace' = Append(trace, "sleep")
    /\ pc' = "retry_sleep"
    /\ ScanLocalsDropped
    /\ UNCHANGED <<call_vars, config, BLEAK_AVAILABLE, exc, target_mac, locked,
                   retry_vars>>

\* await asyncio.sleep(RETRY_DELAY) ends
RetryWake ==
    /\ pc = "retry_sleep"
    /\ pc' = "loop_next"
    /\ UNCHANGED <<call_vars, config, BLEAK_AVAILABLE, exc, target_mac, locked,
                   trace, retry_vars, scan_vars>>

\* the last attempt is not followed by a sleep
NoRetrySleep ==
    /\ pc = "after_scan"
    /\ ~CloseEnough(proximity)
    /\ ~AttemptsRemain(attempt)
    /\ pc' = "loop_next"
    /\ ScanLocalsDropped
    /\ UNCHANGED <<call_vars, config, BLEAK_AVAILABLE, exc, target_mac, locked,
                   trace, retry_vars>>

\* for attempt in range(RETRY_COUNT): the next value of attempt
NextAttempt ==
    /\ pc = "loop_next"
    /\ InRange(attempt + 1)
    /\ attempt' = attempt + 1
    /\ pc' = "retry"
    /\ UNCHANGED <<call_vars, config, BLEAK_AVAILABLE, exc, target_mac, locked,
                   trace, proximity, verdict, report, history, scan_vars>>

\* a variant of Exhausted: the result of the last attempt is returned when
\* that attempt matched the target
Exhausted_LastResult ==
    /\ pc = "loop_next"
    /\ ~InRange(attempt + 1)
    /\ report' = IF proximity = None THEN "not found" ELSE "remains"
    /\ verdict' = IF proximity = None THEN "Very Far" ELSE proximity
    /\ pc' = "decide"
    /\ UNCHANGED <<call_vars, config, BLEAK_AVAILABLE, exc, target_mac, locked,
                   trace, attempt, proximity, history, scan_vars>>

\* the loop is over: return "Very Far"
Exhausted ==
    /\ pc = "loop_next"
    /\ ~InRange(attempt + 1)
    /\ report' = IF proximity = None THEN "not found" ELSE "remains"
    /\ verdict' = "Very Far"
    /\ pc' = "decide"
    /\ UNCHANGED <<call_vars, config, BLEAK_AVAILABLE, exc, target_mac, locked,
                   trace, attempt, proximity, history, scan_vars>>

(***************************************************************************)
(* run_service, after the retry call returned.                             *)
(***************************************************************************)
\* a variant of TriggerLock: a failed lock() is called again
TriggerLock_Retried ==
    /\ pc = "decide"
    /\ ShouldLock(verdict)
    /\ trace' = Append(trace, "lock")
    /\ \E dbus_ok \in BOOLEAN, session_id_found \in BOOLEAN, loginctl_ok \in BOOLEAN :
        LET r == lock(dbus_ok, session_id_found, loginctl_ok)
        IN  IF r = "ok"
            THEN pc' = "poll_sleep" /\ UNCHANGED exc
            ELSE pc' = "decide" /\ exc' = r
    /\ UNCHANGED <<call_vars, config, BLEAK_AVAILABLE, target_mac, locked,
                   retry_vars, scan_vars>>

TriggerLock ==
    /\ pc = "decide"
    /\ ShouldLock(verdict)
    /\ trace' = Append(trace, "lock")
    /\ \E dbus_ok \in BOOLEAN, session_id_found \in BOOLEAN, loginctl_ok \in BOOLEAN :
        LET r == lock(dbus_ok, session_id_found, loginctl_ok)
        IN  IF r = "ok"
            THEN pc' = "poll_sleep" /\ UNCHANGED exc
            ELSE RaisedInLoop(r)
    /\ UNCHANGED <<call_vars, config, BLEAK_AVAILABLE, target_mac, locked,
                   retry_vars, scan_vars>>

NoAction ==
    /\ pc = "decide"
    /\ ~ShouldLock(verdict)
    /\ pc' = "poll_sleep"
    /\ UNCHANGED <<call_vars, config, BLEAK_AVAILABLE, exc, target_mac, locked,
                   trace, retry_vars, scan_vars>>

\* a loop that goes to its next cycle without sleeping
PollSleep_Skipped ==
    /\ pc = "poll_sleep"
    /\ pc' = "cycle"
    /\ UNCHANGED <<call_vars, config, BLEAK_AVAILABLE, exc, target_mac, locked,
                   trace, retry_vars, scan_vars>>

\* time.sleep(CHECK_INTERVAL)
PollSleep ==
    /\ pc = "poll_sleep"
    /\ trace' = Append(trace, "poll_sleep")
    /\ pc' = "cycle"
    /\ UNCHANGED <<call_vars, config, BLEAK_AVAILABLE, exc, target_mac, locked,
                   retry_vars, scan_vars>>

Next ==
    \/ LoadTarget
    \/ CheckLocked
    \/ StartAttempt
    \/ ScannerStart
    \/ DetectionCallback
    \/ WaitEnds
    \/ ScannerStop
    \/ ErrorStop
    \/ MonitorOnce
    \/ FastAccept
    \/ RetrySleep
    \/ RetryWake
    \/ NoRetrySleep
    \/ NextAttempt
    \/ Exhausted
    \/ TriggerLock
    \/ NoAction
    \/ PollSleep

Spec == Init /\ [][Next]_vars

(***************************************************************************)
(* Progress: the coroutine of scan_proximity_with_retry takes its next     *)
(* step: the event loop resumes it when it is ready, its timers (the       *)
(* timeout of wait_for, asyncio.sleep) fire, and a call of scanner.start() *)
(* or scanner.stop() ends, by returning or by raising.  Nothing is assumed *)
(* of the radio's callbacks.                                               *)
(***************************************************************************)
RetryStep ==
    \/ StartAttempt
    \/ ScannerStart
    \/ WaitEnds
    \/ ScannerStop
    \/ ErrorStop
    \/ MonitorOnce
    \/ FastAccept
    \/ RetrySleep
    \/ RetryWake
    \/ NoRetrySleep
    \/ NextAttempt
    \/ Exhausted

Progress == WF_vars(RetryStep)

\* the service started with the phone's address configured and bleak installed
LiveInit ==
    /\ Init
    /\ config = Some(<<"A", "1", "\n">>)
    /\ BLEAK_AVAILABLE

\* the devices in range: the phone close by, far away and with a failed
\* measurement, and one other device
LiveAdvertisements ==
    { Advertisement(PHONE_ADDRESS, PHONE_NAME, Some(r)) : r \in {-50, -70, 0} }
    \cup { Advertisement(OTHER_ADDRESS, <<>>, Some(-50)) }

\* the radio delivers the advertisement of a device in range
LiveCallback ==
    /\ DetectionCallback
    /\ devices_found'[Len(devices_found')]
           \in { DeviceTuple(adv) : adv \in LiveAdvertisements }

LiveNext ==
    \/ LoadTarget
    \/ CheckLocked
    \/ RetryStep
    \/ LiveCallback
    \/ TriggerLock
    \/ NoAction
    \/ PollSleep

LiveSpec == LiveInit /\ [][LiveNext]_vars /\ Progress


(***************************************************************************)
(* One call of scan_ble_devices, with either value of target_only, on a    *)
(* detector built for any list of targets.                                 *)
(***************************************************************************)
\* the number of targets a detector is built for
MaxTargets == 2

TargetIdentifiers ==
    { <<"A", "1">>, <<"a", "1">>, <<"p", "h">>, <<"1">>, <<"B", "2">> }

TargetLists == UNION { [1..n -> TargetIdentifiers] : n \in 0..MaxTargets }

DetectorInit ==
    /\ config = Absent
    /\ BLEAK_AVAILABLE = TRUE
    /\ pc = "scan_start"
    /\ exc = None
    /\ target_mac = <<>>
    /\ locked = None
    /\ attempt = 0
    /\ proximity = None
    /\ verdict = None
    /\ report = None
    /\ target_only \in BOOLEAN
    /\ target_devices \in { DetectorTargets(t) : t \in TargetLists }
    /\ devices_found = <<>>
    /\ found_target_macs = {}
    /\ stop_scan_event = FALSE
    /\ scanner = "created"
    /\ stop_requests = 0
    /\ wait_result = None
    /\ found_at_wait_end = 0
    /\ returned = <<>>
    /\ monitor_result = NoMonitorResult
    /\ history = <<>>
    /\ trace = <<>>
    /\ estimate_call = NoEstimate
    /\ screenlock_call = NoScreenLockCall
    /\ monitor_loop = NoMonitorLoop

DetectorNext ==
    \/ ScannerStart
    \/ DetectionCallback
    \/ WaitEnds
    \/ ScanSleepEnds
    \/ ScannerStop
    \/ ErrorStop

DetectorSpec == DetectorInit /\ [][DetectorNext]_vars

(***************************************************************************)
(* The distance estimator and the classifier on their own: the two calls   *)
(* monitor_once makes for a device, and classify_proximity for a distance. *)
(***************************************************************************)
\* the weakest signal strength drawn, as a loss in dB: rssi is in -MaxLoss..0
MaxLoss == 90
\* the largest distance drawn, in hundredths of a metre
MaxDistance == 1200

RssiInputs == {Absent} \cup { Some(r) : r \in (0 - MaxLoss)..0 }

TxPowerInputs == { Absent, Some(0), Some(4), Some(-40), Some(-59), Some(-70) }

DistanceInputs == {Absent} \cup { Some(d) : d \in 0..MaxDistance }

EstimatorInit ==
    /\ config = Absent
    /\ BLEAK_AVAILABLE = TRUE
    /\ pc = "estimator"
    /\ exc = None
    /\ target_mac = <<>>
    /\ locked = None
    /\ attempt = 0
    /\ proximity = None
    /\ verdict = None
    /\ report = None
    /\ target_only = TRUE
    /\ target_devices = <<>>
    /\ devices_found = <<>>
    /\ found_target_macs = {}
    /\ stop_scan_event = FALSE
    /\ scanner = "none"
    /\ stop_requests = 0
    /\ wait_result = None
    /\ found_at_wait_end = 0
    /\ returned = <<>>
    /\ monitor_result = NoMonitorResult
    /\ history = <<>>
    /\ trace = <<>>
    /\ estimate_call = NoEstimate
    /\ screenlock_call = NoScreenLockCall
    /\ monitor_loop = NoMonitorLoop

\* distance = estimate_distance(rssi, tx_power); classify_proximity(distance)
Estimate ==
    /\ pc = "estimator"
    /\ \E rssi \in RssiInputs, tx_power \in TxPowerInputs :
        LET distance == estimate_distance(rssi, tx_power)
        IN  estimate_call' =
                [op |-> "estimate", rssi |-> rssi, tx_power |-> tx_power,
                 distance |-> distance, proximity |-> classify_proximity(distance)]
    /\ UNCHANGED <<screenlock_call, monitor_loop, config, BLEAK_AVAILABLE, pc, exc, target_mac,
                   locked, trace, retry_vars, scan_vars>>

\* classify_proximity(distance), for a distance given by the caller
Classify ==
    /\ pc = "estimator"
    /\ \E distance \in DistanceInputs :
        estimate_call' =
            [op |-> "classify", rssi |-> Absent, tx_power |-> Absent,
             distance |-> distance, proximity |-> classify_proximity(distance)]
    /\ UNCHANGED <<screenlock_call, monitor_loop, config, BLEAK_AVAILABLE, pc, exc, target_mac,
                   locked, trace, retry_vars, scan_vars>>

EstimatorNext ==
    \/ Estimate
    \/ Classify

EstimatorSpec == EstimatorInit /\ [][EstimatorNext]_vars

(***************************************************************************)
(* An UbuntuScreenLock on its own: calls of is_locked() and lock() over    *)
(* every outcome of the commands they run.                                 *)
(***************************************************************************)
ScreenLockInit ==
    /\ config = Absent
    /\ BLEAK_AVAILABLE = TRUE
    /\ pc = "locker"
    /\ exc = None
    /\ target_mac = <<>>
    /\ locked = None
    /\ attempt = 0
    /\ proximity = None
    /\ verdict = None
    /\ report = None
    /\ target_only = TRUE
    /\ target_devices = <<>>
    /\ devices_found = <<>>
    /\ found_target_macs = {}
    /\ stop_scan_event = FALSE
    /\ scanner = "none"
    /\ stop_requests = 0
    /\ wait_result = None
    /\ found_at_wait_end = 0
    /\ returned = <<>>
    /\ monitor_result = NoMonitorResult
    /\ history = <<>>
    /\ trace = <<>>
    /\ estimate_call = NoEstimate
    /\ screenlock_call = NoScreenLockCall
    /\ monitor_loop = NoMonitorLoop

\* locker.is_locked()
IsLocked ==
    /\ pc = "locker"
    /\ \E session \in SessionChecks, loginctl \in LoginctlRuns, dbus \in DbusRuns :
        LET l == check_via_loginctl(loginctl)
            d == check_via_dbus(dbus)
        IN  screenlock_call' =
                [screenlock_call EXCEPT !.status =
                    [session |-> session, loginctl |-> loginctl, dbus |-> dbus,
                     called |-> status_methods_called(session, l, d),
                     result |-> is_locked(session, l, d)]]
    /\ UNCHANGED <<estimate_call, monitor_loop, config, BLEAK_AVAILABLE, pc, exc, target_mac,
                   locked, trace, retry_vars, scan_vars>>

\* locker.lock()
Lock ==
    /\ pc = "locker"
    /\ \E dbus \in LockRuns, session_id_found \in BOOLEAN, loginctl \in LockRuns :
        screenlock_call' =
            [screenlock_call EXCEPT !.lock =
                [dbus |-> dbus, session_id_found |-> session_id_found,
                 loginctl |-> loginctl,
                 tried |-> lock_methods_tried(dbus = "ok", session_id_found,
                                              loginctl = "ok"),
                 result |-> lock(dbus = "ok", session_id_found, loginctl = "ok")]]
    /\ UNCHANGED <<estimate_call, monitor_loop, config, BLEAK_AVAILABLE, pc, exc, target_mac,
                   locked, trace, retry_vars, scan_vars>>

ScreenLockNext ==
    \/ IsLocked
    \/ Lock

ScreenLockSpec == ScreenLockInit /\ [][ScreenLockNext]_vars

(***************************************************************************)
(* A BluetoothMonitor on its own: one monitor_loop generator and the       *)
(* consumer that resumes it.                                               *)
(***************************************************************************)
\* the number of scans one generator is followed for
MaxIterations == 3

\* the values of interval_seconds a caller passes
IntervalInputs == {-5, 0, 10, DEFAULT_INTERVAL}

\* the target lists the monitor is built with
MonitorTargets == {<<>>, DetectorTargets(<<PHONE_ADDRESS>>)}

\* the lists of observations the callback of one scan may have accepted, of
\* the devices that advertise in the liveness environment
ObservedLists ==
    UNION { [1..n -> { DeviceTuple(adv) : adv \in LiveAdvertisements }] : n \in 0..MaxObs }

\* what one call of monitor_once may give: scan_ble_devices raises
\* NotImplementedError without bleak, or the error of a scanner.stop() that
\* failed in its handler, or returns a list that monitor_once processes
MonitorOnceOutcomes ==
    IF ~BLEAK_AVAILABLE
    THEN { [raised |-> "NotImplementedError", results |-> <<>>] }
    ELSE { [raised |-> "BleakError", results |-> <<>>] }
         \cup { monitor_once(FilterDevices(TRUE, target_devices, observed)) :
                    observed \in ObservedLists }

\* a variant of MonitorLoopCatches: the exceptions run_service catches
MonitorLoopCatches_ServiceErrors(e) == LoopCatches(e)

\* except Exception as e: every exception monitor_once raises is an Exception
MonitorLoopCatches(e) == e \in {"NotImplementedError", "BleakError", "TypeError"}

LoopCount(event) ==
    Cardinality({ i \in 1..Len(monitor_loop.log) : monitor_loop.log[i] = event })

MonitorLoopInit ==
    /\ config = Absent
    /\ BLEAK_AVAILABLE \in BOOLEAN
    /\ pc = "monitor"
    /\ exc = None
    /\ target_mac = <<>>
    /\ locked = None
    /\ attempt = 0
    /\ proximity = None
    /\ verdict = None
    /\ report = None
    /\ target_only = TRUE
    /\ target_devices \in MonitorTargets
    /\ devices_found = <<>>
    /\ found_target_macs = {}
    /\ stop_scan_event = FALSE
    /\ scanner = "none"
    /\ stop_requests = 0
    /\ wait_result = None
    /\ found_at_wait_end = 0
    /\ returned = <<>>
    /\ monitor_result = NoMonitorResult
    /\ history = <<>>
    /\ trace = <<>>
    /\ estimate_call = NoEstimate
    /\ screenlock_call = NoScreenLockCall
    /\ monitor_loop = NoMonitorLoop

\* the consumer asks for the first item: the body runs up to `while True`
MonitorLoopEnter ==
    /\ pc = "monitor"
    /\ monitor_loop.at = "created"
    /\ \E requested \in IntervalInputs :
        monitor_loop' =
            [monitor_loop EXCEPT
                !.at = "scan",
                !.requested = Some(requested),
                !.interval_seconds =
                    IF requested <= 0 THEN Some(DEFAULT_INTERVAL) ELSE Some(requested)]
    /\ UNCHANGED <<estimate_call, screenlock_call, config, BLEAK_AVAILABLE, pc, exc,
                   target_mac, locked, trace, retry_vars, scan_vars>>

\* try: results = await self.monitor_once(); yield results
\* except Exception as e: logger.error(...)
MonitorLoopScan ==
    /\ pc = "monitor"
    /\ monitor_loop.at = "scan"
    /\ LoopCount("scan") < MaxIterations
    /\ \E outcome \in MonitorOnceOutcomes :
        IF outcome.raised # None
        THEN monitor_loop' =
                 [monitor_loop EXCEPT
                     !.at = IF MonitorLoopCatches(outcome.raised) THEN "sleep" ELSE "ended",
                     !.log = monitor_loop.log \o <<"scan", "error">>,
                     !.raised = outcome.raised]
        ELSE monitor_loop' =
                 [monitor_loop EXCEPT
                     !.at = "yield",
                     !.log = monitor_loop.log \o <<"scan", "yield">>,
                     !.yielded = outcome.results]
    /\ UNCHANGED <<estimate_call, screenlock_call, config, BLEAK_AVAILABLE, pc, exc,
                   target_mac, locked, trace, retry_vars, scan_vars>>

\* the consumer asks for the next item: the generator goes on after the yield
MonitorLoopResume ==
    /\ pc = "monitor"
    /\ monitor_loop.at = "yield"
    /\ monitor_loop' = [monitor_loop EXCEPT !.at = "sleep"]
    /\ UNCHANGED <<estimate_call, screenlock_call, config, BLEAK_AVAILABLE, pc, exc,
                   target_mac, locked, trace, retry_vars, scan_vars>>

\* await asyncio.sleep(interval_seconds)
MonitorLoopSleep ==
    /\ pc = "monitor"
    /\ monitor_loop.at = "sleep"
    /\ monitor_loop' =
           [monitor_loop EXCEPT
               !.at = "scan",
               !.log = Append(monitor_loop.log, "sleep"),
               !.slept = monitor_loop.interval_seconds]
    /\ UNCHANGED <<estimate_call, screenlock_call, config, BLEAK_AVAILABLE, pc, exc,
                   target_mac, locked, trace, retry_vars, scan_vars>>

MonitorLoopNext ==
    \/ MonitorLoopEnter
    \/ MonitorLoopScan
    \/ MonitorLoopResume
    \/ MonitorLoopSleep

MonitorLoopSpec == MonitorLoopInit /\ [][MonitorLoopNext]_vars

(***************************************************************************)
(* Properties.                                                             *)
(***************************************************************************)
\* the number of calls `call` in the trace of the cycle
Count(call) == Cardinality({ i \in 1..Len(trace) : trace[i] = call })

Classes == {"Immediate", "Near", "Far", "Very Far", "Unknown"}

\* the match predicate of a target identifier, as specified: the identifier is
\* the radio address in any letter case, or a part of the display name in any
\* letter case
IdentifierMatches(id, address, name) ==
    \/ str_upper(id) = str_upper(address)
    \/ str_in(str_lower(id), str_lower(name))

\* C1: safety bias of the retry orchestrator. When a call of
\* scan_proximity_with_retry has ended on the outcomes of its scans (it
\* returned, or the processing of a scan result raised) and in no attempt the
\* target was observed and classified Immediate or Near, the verdict is a far
\* class.
C1_SafetyBias ==
    LET ended == pc = "decide" \/ (pc = "crashed" /\ exc = "TypeError")
        evidence == \E i \in 1..Len(history) : history[i].close
    IN  (ended /\ ~evidence) => verdict \in FAR_PROXIMITIES

\* C2: in a cycle in which is_locked() returned false and the verdict of the
\* retry orchestrator is Far or Very Far, lock() is called exactly once.
C2_LockOnceWhenFar ==
    (pc \in {"poll_sleep", "cycle"} /\ locked = "unlocked" /\ verdict \in FAR_PROXIMITIES)
        => Count("lock") = 1

C2_Witness ==
    /\ pc = "cycle"
    /\ locked = "unlocked"
    /\ verdict = "Very Far"
    /\ exc = None
    /\ Count("lock") = 1

\* C3: in a cycle in which is_locked() returned true, no scan is started and
\* lock() is not called.
C3_NoActionWhenLocked ==
    locked = "locked" => (Count("scan") = 0 /\ Count("lock") = 0)

C3_Witness ==
    /\ pc = "cycle"
    /\ locked = "locked"
    /\ trace = <<"is_locked", "poll_sleep">>

\* C4: no error arising in a cycle terminates the loop of run_service.
C4_LoopSurvivesCycle == pc # "crashed"

\* C5: when the scan returned a device whose rssi is 0 or None, monitor_once
\* completes without raising and reports the device with distance None and
\* proximity "Unknown".
C5_SensorFaultHandled ==
    \A i \in 1..Len(returned) :
        (pc # "scan_returned" /\ returned[i].rssi \in {Absent, Some(0)}) =>
            /\ monitor_result.raised = None
            /\ Len(monitor_result.results) = Len(returned)
            /\ monitor_result.results[i].distance = Absent
            /\ monitor_result.results[i].proximity = "Unknown"

\* C6: when scan_proximity found no target in any attempt of a call that
\* returned, the call made exactly RETRY_COUNT scans and returned "Very Far",
\* reporting the target as not found.
C6_NeverMatchedExhausts ==
    (pc = "decide" /\ \A i \in 1..Len(history) : history[i].result = None)
        => /\ Count("scan") = RETRY_COUNT
           /\ Len(history) = RETRY_COUNT
           /\ verdict = "Very Far"
           /\ report = "not found"

C6_Witness ==
    /\ pc = "decide"
    /\ Len(history) = RETRY_COUNT
    /\ \A i \in 1..Len(history) : history[i].result = None /\ ~history[i].matched
    /\ report = "not found"

\* C7: fast accept. An attempt whose result is a class other than Far and
\* Very Far is the last attempt of its call: the call returns that class, no
\* scan is started after it and no sleep follows it.
C7_FastAccept ==
    \A i \in 1..Len(history) :
        history[i].result \in (Classes \ FAR_PROXIMITIES) =>
            /\ i = Len(history)
            /\ Count("scan") = i
            /\ Count("sleep") = i - 1
            /\ pc \in {"after_scan", "decide", "poll_sleep", "cycle"}
            /\ (pc # "after_scan" => verdict = history[i].result)

C7_Witness ==
    /\ pc = "decide"
    /\ Len(history) = 2
    /\ history[1].result = "Far"
    /\ history[2].result = "Near"
    /\ verdict = "Near"
    /\ trace = <<"is_locked", "scan", "sleep", "scan">>

\* C8: every sleep of the retry orchestrator lies between two scans; an
\* attempt that found no target or a far one is followed by one sleep if
\* attempts remain and by none if it was the last; a call that exhausts its
\* attempts makes RETRY_COUNT scans and RETRY_COUNT - 1 sleeps.
C8_SleepBetweenScans ==
    /\ \A i \in 1..Len(trace) :
        trace[i] = "sleep" =>
            /\ i > 1
            /\ trace[i - 1] = "scan"
            /\ IF i < Len(trace)
               THEN trace[i + 1] = "scan"
               ELSE pc \in {"retry_sleep", "loop_next", "retry"}
    /\ \A i \in 1..Len(history) :
        history[i].result \in ({None} \cup FAR_PROXIMITIES) =>
            IF i < RETRY_COUNT
            THEN (i = Len(history) /\ pc = "after_scan") \/ Count("sleep") >= i
            ELSE Count("sleep") = RETRY_COUNT - 1
    /\ Count("scan") <= RETRY_COUNT
    /\ report # None => (Count("scan") = RETRY_COUNT /\ Count("sleep") = RETRY_COUNT - 1)

C8_Witness ==
    /\ pc = "decide"
    /\ report = "remains"
    /\ trace = <<"is_locked", "scan", "sleep", "scan", "sleep", "scan">>

\* C9: when the scan of an attempt returned an observation that satisfies the
\* match predicate of the configured identifier, the attempt's result is the
\* classification of the first such observation.
C9_TargetHonoured ==
    pc = "after_scan" =>
        \A i \in 1..Len(returned) :
            ( /\ IdentifierMatches(target_mac, returned[i].mac, returned[i].name)
              /\ \A j \in 1..(i - 1) :
                    ~IdentifierMatches(target_mac, returned[j].mac, returned[j].name) )
            => proximity = MonitorEntry(returned[i]).proximity

\* C10: for every observation delivered to a detector, is_target_device is
\* true exactly when some target identifier equals the address in any letter
\* case or is a part of the display name in any letter case.
C10_MatchPredicate ==
    \A i \in 1..Len(devices_found) :
        is_target_device(target_devices, devices_found[i].mac, devices_found[i].name)
            <=> \E t \in 1..Len(target_devices) :
                    IdentifierMatches(target_devices[t], devices_found[i].mac,
                                      devices_found[i].name)

\* the observations of a list that match one of the detector's targets
TargetObservations(devices) ==
    SelectSeq(devices, LAMBDA d : is_target_device(target_devices, d.mac, d.name))

\* C11: in a scan for a single target that stops early, the result holds as
\* many observations of the target as had arrived at the first match, which
\* is one: no later callback adds to it.
C11_FirstMatchFreezesResult ==
    (pc = "scan_returned" /\ target_only /\ Len(target_devices) = 1)
        => Len(TargetObservations(returned)) <= 1

\* C12: a scan for two or more targets that stops early leaves its wait
\* before the deadline only when every target identifier has been matched
\* by an observation that arrived.
C12_EarlyEndNeedsEveryTarget ==
    (wait_result = "event" /\ Len(target_devices) >= 2)
        => \A t \in 1..Len(target_devices) :
               \E j \in 1..found_at_wait_end :
                   TargetMatches(target_devices[t], devices_found[j].mac,
                                 devices_found[j].name)

\* C13: when the duration of a scan elapsed, the list the scan returns holds
\* no observation whose callback ran after the wait had ended.
C13_NothingAfterDeadline ==
    (pc = "scan_returned" /\ wait_result \in {"timeout", "slept"} /\ stop_requests = 1)
        => returned = FilterDevices(target_only, target_devices,
                                    SubSeq(devices_found, 1, found_at_wait_end))

\* C14: one scan calls scanner.stop() at most once, on every path.
C14_AtMostOneStop == stop_requests <= 1

\* C15: when the radio failed at start, during the wait or at stop,
\* scan_ble_devices returns the empty list and raises nothing.
C15_RadioFailureReturnsEmpty ==
    /\ exc # "BleakError"
    /\ (pc = "scan_returned" /\ (wait_result = None \/ stop_requests >= 2))
           => returned = <<>>

\* the positions of devices_found whose observation matches a target
MatchingPositions ==
    { j \in 1..Len(devices_found) :
        is_target_device(target_devices, devices_found[j].mac, devices_found[j].name) }

\* the returned list is the observations at `positions`, in arrival order
ReturnedAre(positions) ==
    /\ Len(returned) = Cardinality(positions)
    /\ \A j \in positions :
           returned[Cardinality({ k \in positions : k <= j })] = devices_found[j]

\* scan_ble_devices returned after a scan in which the radio did not fail
ScanReturnedNormally ==
    pc = "scan_returned" /\ wait_result # None /\ stop_requests = 1

\* C16: the list a scan returns is, when targets were supplied and
\* target_only is true, exactly the accepted observations that match a
\* target, in arrival order; when the target list is empty or target_only is
\* false, every accepted observation in arrival order.
C16_FinalFiltering ==
    ScanReturnedNormally =>
        IF target_only /\ target_devices # <<>>
        THEN ReturnedAre(MatchingPositions)
        ELSE returned = devices_found

\* C16 as stated: the list is filtered whenever targets were supplied.
C16_FilteredWheneverTargets ==
    ScanReturnedNormally =>
        IF target_devices # <<>>
        THEN ReturnedAre(MatchingPositions)
        ELSE returned = devices_found

C16_Witness ==
    /\ ScanReturnedNormally
    /\ target_only
    /\ Len(target_devices) = 2
    /\ Len(devices_found) = 2
    /\ MatchingPositions = {2}
    /\ returned = <<devices_found[2]>>

\* C17: whatever tx_power is, estimate_distance gives None for an rssi of 0
\* or None, and classify_proximity(None) is "Unknown".
C17_InvalidSignalIsUnknown ==
    /\ (estimate_call.op = "estimate" /\ estimate_call.rssi \in {Absent, Some(0)})
           => /\ estimate_call.distance = Absent
              /\ estimate_call.proximity = "Unknown"
    /\ (estimate_call.op = "classify" /\ estimate_call.distance = Absent)
           => estimate_call.proximity = "Unknown"

C17_Witness ==
    /\ estimate_call.op = "estimate"
    /\ estimate_call.rssi = Some(0)
    /\ estimate_call.tx_power = Some(-40)
    /\ estimate_call.proximity = "Unknown"

\* C18: classify_proximity gives a class for every distance, with exclusive
\* upper bounds: below 0.5 m "Immediate", from 0.5 m and below 2 m "Near",
\* from 2 m and below 10 m "Far", from 10 m "Very Far".
C18_ClassifyThresholds ==
    (estimate_call.op # None /\ estimate_call.distance # Absent)
        => LET d == ValueOf(estimate_call.distance)
               p == estimate_call.proximity
           IN  /\ p \in {"Immediate", "Near", "Far", "Very Far"}
               /\ (p = "Immediate") <=> (d < 50)
               /\ (p = "Near") <=> (50 <= d /\ d < 200)
               /\ (p = "Far") <=> (200 <= d /\ d < 1000)
               /\ (p = "Very Far") <=> (1000 <= d)

C18_Witness ==
    /\ estimate_call.op = "classify"
    /\ estimate_call.distance = Some(200)
    /\ estimate_call.proximity = "Far"

\* C19: with tx_power -59, an rssi of -70 gives the distance 3.55 m and the
\* class "Far", and an rssi of -50 gives 0.35 m and the class "Immediate".
C19_EndToEnd ==
    (estimate_call.op = "estimate" /\ estimate_call.tx_power = Some(-59))
        => /\ estimate_call.rssi = Some(-70)
                  => /\ estimate_call.distance = Some(355)
                     /\ estimate_call.proximity = "Far"
           /\ estimate_call.rssi = Some(-50)
                  => /\ estimate_call.distance = Some(35)
                     /\ estimate_call.proximity = "Immediate"

C19_Witness ==
    /\ estimate_call.op = "estimate"
    /\ estimate_call.tx_power = Some(-59)
    /\ estimate_call.rssi = Some(-70)
    /\ estimate_call.distance = Some(355)

\* the classes from the closest to the farthest
ProximityRank(p) ==
    CASE p = "Immediate" -> 0
      [] p = "Near" -> 1
      [] p = "Far" -> 2
      [] p = "Very Far" -> 3

\* the tx_power estimate_distance computes with
CalibratedPower(tx_power) ==
    IF tx_power \in {Absent, Some(0)} THEN -59 ELSE ValueOf(tx_power)

\* C20: for one tx_power and two valid signal strengths s1 < s2 below it,
\* the distance estimated for s1 is no smaller than the one for s2, and its
\* class is no closer.
C20_WeakerIsNotCloser ==
    (estimate_call.op = "estimate" /\ estimate_call.distance # Absent)
        => LET s1 == ValueOf(estimate_call.rssi)
               c == CalibratedPower(estimate_call.tx_power)
           IN  \A s2 \in (s1 + 1)..(c - 1) :
                   s2 < 0 =>
                       LET other == estimate_distance(Some(s2), estimate_call.tx_power)
                       IN  /\ ValueOf(estimate_call.distance) >= ValueOf(other)
                           /\ ProximityRank(estimate_call.proximity)
                                  >= ProximityRank(classify_proximity(other))

C20_Witness ==
    /\ estimate_call.op = "estimate"
    /\ estimate_call.tx_power = Some(-59)
    /\ estimate_call.rssi = Some(-70)
    /\ ValueOf(estimate_call.distance)
           > ValueOf(estimate_distance(Some(-65), Some(-59)))

\* C21: estimate_distance computes with -59 when tx_power is None and with
\* the supplied tx_power itself for every supplied integer.
C21_SuppliedPowerUsed ==
    (estimate_call.op = "estimate" /\ estimate_call.rssi \notin {Absent, Some(0)})
        => LET power == IF estimate_call.tx_power = Absent
                        THEN -59
                        ELSE ValueOf(estimate_call.tx_power)
           IN  estimate_call.distance =
                   Some(DistanceHundredths(power - ValueOf(estimate_call.rssi)))

\* C22: a cycle of run_service that ends is followed by exactly one
\* time.sleep(CHECK_INTERVAL) before the next is_locked() call, whether the
\* screen was locked, the device was close, lock() was called or an error was
\* caught; no sleep of the poll interval happens inside a cycle.
C22_OneSleepPerCycle ==
    /\ (pc = "cycle" /\ trace # <<>>)
           => /\ trace[1] = "is_locked"
              /\ trace[Len(trace)] = "poll_sleep"
              /\ Count("poll_sleep") = 1
    /\ pc # "cycle" => Count("poll_sleep") = 0

C22_Witness ==
    /\ pc = "cycle"
    /\ exc = "LockFailedError"
    /\ trace[Len(trace)] = "poll_sleep"
    /\ Count("lock") = 1

\* C23: when the target identifier is not available at startup, run_service
\* fails before its loop: it makes no is_locked() call, no scan and no lock()
\* call, and the loop never runs without a target identifier.
C23_NoLoopWithoutTarget ==
    /\ config = Absent => (pc \in {"load", "fatal"} /\ trace = <<>>)
    /\ pc \notin {"load", "fatal"} => target_mac # <<>>

\* C24: no operation blocks for ever: a scan that was entered ends, whether
\* or not a callback is ever delivered, and a call of
\* scan_proximity_with_retry ends, after at most RETRY_COUNT scans and
\* RETRY_COUNT - 1 sleeps.
C24_NothingBlocksForEver ==
    /\ (pc = "scan_start") ~> (pc \in {"scan_returned", "crashed"})
    /\ (pc = "retry") ~> (pc \in {"decide", "crashed"})
    /\ [](Count("scan") <= RETRY_COUNT /\ Count("sleep") <= RETRY_COUNT - 1)

C24_Witness ==
    /\ pc = "decide"
    /\ Count("scan") = RETRY_COUNT
    /\ Count("sleep") = RETRY_COUNT - 1
    /\ \A i \in 1..Len(history) : ~history[i].matched

\* C25: is_target_device gives the same answer for an observation in the
\* callback and in the final filtering: the addresses counted in
\* found_target_macs during a scan are the addresses of the observations in
\* the filtered list it returns.
C25_MatchIdempotent ==
    (ScanReturnedNormally /\ target_only /\ target_devices # <<>>)
        => { returned[i].mac : i \in 1..Len(returned) } = found_target_macs

C25_Witness ==
    /\ ScanReturnedNormally
    /\ target_only
    /\ found_target_macs = {PHONE_ADDRESS, SECOND_PHONE_ADDRESS}
    /\ Len(returned) = 2
    /\ returned = devices_found

\* what a call of is_locked() gave is what the first status method that did
\* not fail gave, and no later method was called
FirstStatusMethodDecides(c) ==
    /\ c.loginctl \notin MethodFailures
           => /\ c.called = <<"loginctl">>
              /\ (c.result = "locked") <=> (c.loginctl = "LockedHint=yes")
              /\ (c.result = "unlocked") <=> (c.loginctl # "LockedHint=yes")
    /\ (c.loginctl \in MethodFailures /\ c.dbus \notin MethodFailures)
           => /\ c.called = <<"loginctl", "dbus">>
              /\ (c.result = "locked") <=> (c.dbus = "boolean true")
              /\ (c.result = "unlocked") <=> (c.dbus # "boolean true")

EveryStatusMethodFailed(c) ==
    c.loginctl \in MethodFailures /\ c.dbus \in MethodFailures

\* C26: when no active graphical session is found is_locked() returns True
\* and calls no status method; when a session is found or assumed, it
\* raises StatusCheckError if and only if loginctl and D-Bus both fail, and
\* otherwise returns what the first status method that does not fail gives,
\* without calling a later one.
C26_StatusMethodsInOrder ==
    LET c == screenlock_call.status
    IN  c.result # None =>
            IF c.session = "none"
            THEN c.result = "locked" /\ c.called = <<>>
            ELSE /\ (c.result = "StatusCheckError") <=> EveryStatusMethodFailed(c)
                 /\ c.result # "StatusCheckError" => FirstStatusMethodDecides(c)

\* C26 as stated: whenever is_locked() does not raise, it returns what the
\* first status method that does not fail gives.
C26_AlwaysFromStatusMethod ==
    LET c == screenlock_call.status
    IN  c.result # None =>
            /\ (c.result = "StatusCheckError")
                   <=> (c.session # "none" /\ EveryStatusMethodFailed(c))
            /\ c.result # "StatusCheckError" => FirstStatusMethodDecides(c)

C26_Witness ==
    /\ screenlock_call.status.session = "error"
    /\ screenlock_call.status.loginctl = "CalledProcessError"
    /\ screenlock_call.status.dbus = "boolean false"
    /\ screenlock_call.status.called = <<"loginctl", "dbus">>
    /\ screenlock_call.status.result = "unlocked"

\* C27: lock() runs dbus-send first and loginctl only after dbus-send
\* failed and a session id was found; it returns at the first command that
\* succeeds, and raises LockFailedError if and only if every command failed
\* or was skipped.
C27_LockMethodsInOrder ==
    LET c == screenlock_call.lock
    IN  c.result # None =>
            /\ c.result \in {"ok", "LockFailedError"}
            /\ (c.result = "LockFailedError")
                   <=> /\ c.dbus \in MethodFailures
                       /\ (~c.session_id_found \/ c.loginctl \in MethodFailures)
            /\ c.dbus = "ok" => c.tried = <<"dbus-send">>
            /\ (c.dbus \in MethodFailures /\ c.session_id_found)
                   => c.tried = <<"dbus-send", "loginctl">>
            /\ (c.dbus \in MethodFailures /\ ~c.session_id_found)
                   => c.tried = <<"dbus-send">>

C27_Witness ==
    /\ screenlock_call.lock.dbus = "FileNotFoundError"
    /\ screenlock_call.lock.session_id_found
    /\ screenlock_call.lock.loginctl = "ok"
    /\ screenlock_call.lock.tried = <<"dbus-send", "loginctl">>
    /\ screenlock_call.lock.result = "ok"


\* C28: lock() is called in a cycle only if is_locked() returned false in that
\* cycle and the verdict of the retry orchestrator for that cycle is Far or
\* Very Far; a verdict of Immediate, Near or Unknown never leads to lock().
C28_LockOnlyWhenUnlockedAndFar ==
    /\ Count("lock") >= 1 => (locked = "unlocked" /\ verdict \in FAR_PROXIMITIES)
    /\ verdict \in {"Immediate", "Near", "Unknown"} => Count("lock") = 0

C28_Witness ==
    /\ pc = "poll_sleep"
    /\ Count("lock") = 1
    /\ locked = "unlocked"
    /\ verdict = "Very Far"
    /\ report = "remains"

\* C29: within one cycle is_locked() is called exactly once and before any
\* scan starts, and lock() is called at most once, even when the call fails;
\* only the scan is repeated within a cycle.
C29_CollaboratorsNotRetried ==
    trace # <<>> =>
        /\ trace[1] = "is_locked"
        /\ Count("is_locked") = 1
        /\ Count("lock") <= 1
        /\ \A i \in 1..Len(trace) : trace[i] = "lock" =>
               \A j \in (i + 1)..Len(trace) : trace[j] = "poll_sleep"

C29_Witness ==
    /\ pc = "poll_sleep"
    /\ exc = "LockFailedError"
    /\ Count("is_locked") = 1
    /\ Count("lock") = 1
    /\ Count("scan") = RETRY_COUNT

\* C30: when every attempt is used up without a close result,
\* scan_proximity_with_retry returns Very Far whatever the last attempt saw:
\* a target matched as Far on the last attempt and a target never matched
\* give the same verdict.
C30_ExhaustedIsVeryFar ==
    (/\ pc = "decide"
     /\ Len(history) = RETRY_COUNT
     /\ \A i \in 1..Len(history) : ~CloseEnough(history[i].result))
        => verdict = "Very Far"

C30_Witness ==
    /\ pc = "decide"
    /\ Len(history) = RETRY_COUNT
    /\ history[RETRY_COUNT].result = "Far"
    /\ \A i \in 1..Len(history) : ~CloseEnough(history[i].result)
    /\ verdict = "Very Far"


\* where run_service is while a call of scan_ble_devices is under way
ScanPcs == {"scan_start", "scan_wait", "scan_stop", "scan_error"}

\* the scans of this cycle that have started and not yet ended
ScansUnderWay == Count("scan") - Len(history)

\* C31: the scans of the retry orchestrator are sequential, for the single
\* target and with early stop enabled: two scans of one cycle are never active
\* together, and a scan starts only after the scan before it returned and its
\* scanner.stop() was called.
C31_ScansSequential ==
    /\ pc \in ScanPcs \cup {"scan_returned"} =>
           /\ target_only
           /\ Len(target_devices) = 1
           /\ ScansUnderWay = 1
    /\ pc \notin ScanPcs \cup {"scan_returned", "crashed"} =>
           /\ ScansUnderWay = 0
           /\ scanner # "running"
    /\ pc \in {"scan_returned", "after_scan"} =>
           /\ scanner = "stopped"
           /\ stop_requests >= 1

C31_Witness ==
    /\ pc = "scan_wait"
    /\ scanner = "running"
    /\ Count("scan") = RETRY_COUNT
    /\ Len(history) = RETRY_COUNT - 1


\* C32: with a non-empty target list and target_only true, a scan returns
\* before its duration elapsed only if an observation matching a target was
\* delivered during that scan, or the radio failed; observations of other
\* devices never end the scan early.
C32_EarlyReturnNeedsMatch ==
    (target_only /\ target_devices # <<>>) =>
        /\ stop_scan_event => MatchingPositions # {}
        /\ wait_result = "event" =>
               \E j \in MatchingPositions : j <= found_at_wait_end
        /\ (pc = "scan_returned" /\ wait_result # "timeout") =>
               \/ wait_result = None
               \/ \E j \in MatchingPositions : j <= found_at_wait_end

C32_Witness ==
    /\ pc = "scan_returned"
    /\ target_only
    /\ target_devices # <<>>
    /\ wait_result = "event"
    /\ found_at_wait_end = 2
    /\ MatchingPositions = {2}


\* scan_ble_devices returned, or raised out of its error handler
ScanEnded == pc = "scan_returned" \/ (pc = "crashed" /\ exc = "BleakError")

\* C33: every scan that tried to start the radio has called scanner.stop()
\* before scan_ble_devices returns or raises, on the early-stop path, the
\* deadline path and the error path, and the scanner is not left running
\* when the scan has ended.
C33_ScannerStoppedAtEnd ==
    ScanEnded =>
        /\ stop_requests >= 1
        /\ scanner # "running"


\* the positions of the returned list whose address equals the target
TargetPositions == { i \in 1..Len(returned) : SameMac(returned[i].mac, target_mac) }

\* the observation of the target that arrived first
EarliestOfTarget ==
    returned[CHOOSE i \in TargetPositions : \A j \in TargetPositions : i <= j]

\* monitor_once and scan_proximity have run on the list the scan returned
AttemptProcessed ==
    \/ pc = "after_scan"
    \/ (pc = "crashed" /\ monitor_result.raised # None)

\* C34: when the list a scan returned holds several observations whose address
\* equals the target, the result of that attempt is the classification of the
\* one that arrived first; the later ones never change it.
C34_EarliestObservationDecides ==
    (/\ AttemptProcessed
     /\ Cardinality(TargetPositions) >= 2
     /\ ~FormatRaises(MonitorEntry(EarliestOfTarget).distance))
        => history[Len(history)].result = MonitorEntry(EarliestOfTarget).proximity


\* C35: when no active graphical session is found, is_locked() returns True
\* without calling a status method, and run_service neither scans nor locks
\* on that answer; when the session check itself fails, a session is assumed
\* and the status methods are called.
C35_NoSessionCountsAsLocked ==
    LET c == screenlock_call.status
    IN  /\ c.session = "none" =>
               /\ c.called = <<>>
               /\ c.result = "locked"
               /\ ~ShouldScan(c.result)
        /\ c.session = "error" =>
               /\ c.called # <<>>
               /\ c.called[1] = "loginctl"
               /\ c.result = is_locked("active", check_via_loginctl(c.loginctl),
                                       check_via_dbus(c.dbus))

C35_Witness ==
    /\ screenlock_call.status.session = "none"
    /\ screenlock_call.status.loginctl = "LockedHint=no"
    /\ screenlock_call.status.dbus = "boolean false"
    /\ screenlock_call.status.called = <<>>
    /\ screenlock_call.status.result = "locked"


\* C36: monitor_loop never ends because of a failed scan: an exception that
\* monitor_once raises is caught, nothing is yielded in that iteration, and
\* after a sleep of interval_seconds the next scan is made; an
\* interval_seconds of zero or less is replaced by 30.
C36_LoopSurvivesFailedScan ==
    LET m == monitor_loop
    IN  /\ m.at # "ended"
        /\ \A i \in 1..Len(m.log) :
               /\ m.log[i] = "error" =>
                      /\ i > 1 /\ m.log[i - 1] = "scan"
                      /\ i + 1 <= Len(m.log) => m.log[i + 1] = "sleep"
                      /\ i = Len(m.log) => m.at = "sleep"
               /\ m.log[i] = "sleep" =>
                      \/ i = Len(m.log) /\ m.at = "scan"
                      \/ i < Len(m.log) /\ m.log[i + 1] = "scan"
        /\ m.requested # Absent =>
               /\ m.interval_seconds =
                      IF ValueOf(m.requested) <= 0 THEN Some(30) ELSE m.requested
               /\ m.slept # Absent => m.slept = m.interval_seconds

C36_Witness ==
    /\ monitor_loop.log = <<"scan", "error", "sleep", "scan", "yield">>
    /\ monitor_loop.raised = "TypeError"
    /\ monitor_loop.requested = Some(0)
    /\ monitor_loop.slept = Some(30)
    /\ monitor_loop.yielded # <<>>

=============================================================================
